---------------------------- MODULE Spec2Model ----------------------------
(* A model of food_waste_search.py: the formatting helpers (format_stock,  *)
(* get_sort_key, get_optimized_image_url, format_datetime), the renderers  *)
(* (generate_outputs, export_to_markdown, print_clearances) and the        *)
(* interactive loop of main.                                               *)
(*                                                                         *)
(* Python strings are TLA+ strings.  A numeric stock is a whole number of  *)
(* eighths (2.5 is 20): every such value is an exact binary float, so      *)
(* "%.2f" and int() are computed here exactly as Python computes them.     *)
EXTENDS Integers, Sequences, FiniteSets, TLC

VARIABLES
    url, out1, out2,          \* get_optimized_image_url: input, f(x), f(f(x))
    stock, unit, shown,       \* format_stock: inputs and result
    pc,                       \* where the program is
    entry,                    \* the function the run entered: main, or a renderer called directly
    choice,                   \* main: the menu choice of the current request
    query,                    \* main: the request sent to the API
    results,                  \* the batch being rendered
    clock,                    \* the wall clock, in minutes
    base_filename,            \* generate_outputs: tilbud_<stamp>, read once
    html_content,             \* generate_outputs: the fragment built from the batch
    final_html,               \* generate_outputs: the rendered page
    disk,                     \* the paths that exist
    wrote,                    \* the files written by the current call, in order
    console,                  \* the lines printed for the current request
    result,                   \* the paths the renderer returned
    err                       \* the exception raised in the current request

urlVars    == <<url, out1, out2>>
stockVars  == <<stock, unit, shown>>
renderVars == <<pc, entry, choice, query, results, clock, base_filename, html_content,
                final_html,
                disk, wrote, console, result, err>>
vars       == <<urlVars, stockVars, renderVars>>

-----------------------------------------------------------------------------
(* Python str operations *)

\* the one-character string at position i (1-based)
Ch(s, i) == SubSeq(s, i, i)

\* s[i:] for a 1-based i
From(s, i) == SubSeq(s, i, Len(s))

\* s.find(sub) + 1: the 1-based index of the first occurrence, 0 when absent
Find(s, sub) ==
    LET hits == {i \in 1..(Len(s) - Len(sub) + 1) : SubSeq(s, i, i + Len(sub) - 1) = sub}
    IN  IF hits = {} THEN 0 ELSE CHOOSE i \in hits : \A j \in hits : i <= j

\* sub in s
Contains(s, sub) == Find(s, sub) # 0

\* s.split(sep): the pieces between the non-overlapping occurrences of sep,
\* found left to right
RECURSIVE Split(_, _)
Split(s, sep) ==
    LET i == Find(s, sep)
    IN  IF i = 0 THEN <<s>>
        ELSE <<SubSeq(s, 1, i - 1)>> \o Split(From(s, i + Len(sep)), sep)

UpperLetters == "ABCDEFGHIJKLMNOPQRSTUVWXYZ"
LowerLetters == "abcdefghijklmnopqrstuvwxyz"

LowerChar(c) ==
    LET i == Find(UpperLetters, c)
    IN  IF i = 0 THEN c ELSE Ch(LowerLetters, i)

\* s.lower()
RECURSIVE Lower(_)
Lower(s) == IF s = "" THEN "" ELSE LowerChar(Ch(s, 1)) \o Lower(From(s, 2))

-----------------------------------------------------------------------------
(* format_stock *)

\* a numeric stock (int or float), in eighths
Num(e) == [isnum |-> TRUE, e |-> e, text |-> ""]
\* a stock that is neither int nor float (a JSON string)
Txt(t) == [isnum |-> FALSE, e |-> 0, text |-> t]

\* unit_translations.get(key, default)
UnitTranslation(key, default) ==
    CASE key = "each" -> "stk."
      [] key = "kg"   -> "kg"
      [] key = "g"    -> "g"
      [] OTHER        -> default

\* f"{x:.2f}" of the float e/8: correctly rounded, ties to even
Fixed2(e) ==
    LET scaled == (e % 8) * 125            \* thousandths of hundredths: frac * 1000
        down   == scaled \div 10
        rest   == scaled % 10
        cents  == IF rest > 5 \/ (rest = 5 /\ down % 2 = 1) THEN down + 1 ELSE down
    IN  ToString(e \div 8) \o "." \o (IF cents < 10 THEN "0" ELSE "") \o ToString(cents)

\* f"{int(x)}" of the float e/8 (e >= 0): truncation
IntText(e) == ToString(e \div 8)

\* lines 99-103, once the unit is translated
StockWithUnit(s, danish_unit) ==
    IF s.isnum
    THEN IF Lower(danish_unit) = "kg"
         THEN Fixed2(s.e) \o " " \o danish_unit
         ELSE IntText(s.e) \o " " \o danish_unit
    ELSE s.text \o " " \o danish_unit

FormatStockCaseSensitive(s, u) == StockWithUnit(s, UnitTranslation(u, u))

format_stock(s, u) == StockWithUnit(s, UnitTranslation(Lower(u), u))

-----------------------------------------------------------------------------
(* get_optimized_image_url *)

CanonicalDomain == "digitalassets.sallinggroup.com"
LegacyDomain    == "dam.dsg.dk"
CanonicalPrefix ==
    "https://digitalassets.sallinggroup.com/image/upload/e_trim/c_limit,e_sharpen:80,f_auto,q_auto,w_400,h_400/"

\* lines 135-139: the optimized URL when an id was found
OptimizedFromId(original_url, asset_id) ==
    IF asset_id # "" THEN CanonicalPrefix \o asset_id ELSE original_url

\* lines 130-133: split('/id/')[1].split('/')[0]; IndexError returns the URL
OptimizedFromParts(original_url, parts) ==
    IF Len(parts) < 2 THEN original_url
    ELSE OptimizedFromId(original_url, Split(parts[2], "/")[1])

OptimizedNoCanonicalCheck(original_url) ==
    IF original_url = "" THEN ""
    ELSE IF ~Contains(original_url, LegacyDomain) THEN original_url
    ELSE OptimizedFromParts(original_url, Split(original_url, "/id/"))

OptimizedAnyHost(original_url) ==
    IF original_url = "" THEN ""
    ELSE IF Contains(original_url, CanonicalDomain) THEN original_url
    ELSE OptimizedFromParts(original_url, Split(original_url, "/id/"))

get_optimized_image_url(original_url) ==
    IF original_url = "" THEN ""                                    \* not original_url
    ELSE IF Contains(original_url, CanonicalDomain) THEN original_url
    ELSE IF ~Contains(original_url, LegacyDomain) THEN original_url \* asset_id stays None
    ELSE OptimizedFromParts(original_url, Split(original_url, "/id/"))

-----------------------------------------------------------------------------
(* Raised exceptions.  A value that may fail is [err |-> class, ...] with  *)
(* err = NoError when it did not.                                          *)

NoError == ""

\* the first error of a sequence of evaluations done in that order
RECURSIVE FirstError(_)
FirstError(errs) ==
    IF errs = <<>> THEN NoError
    ELSE IF Head(errs) # NoError THEN Head(errs)
    ELSE FirstError(Tail(errs))

Digits == "0123456789"
IsDigit(c) == Len(c) = 1 /\ Contains(Digits, c)
AllDigits(s) == Len(s) >= 1 /\ \A i \in 1..Len(s) : IsDigit(Ch(s, i))

\* the value of a string of digits
RECURSIVE DigitsValue(_)
DigitsValue(s) ==
    IF s = "" THEN 0
    ELSE 10 * DigitsValue(SubSeq(s, 1, Len(s) - 1)) + (Find(Digits, Ch(s, Len(s))) - 1)

\* s without a leading sign
Unsigned(s) == IF s # "" /\ Ch(s, 1) \in {"+", "-"} THEN From(s, 2) ELSE s

\* int(s) succeeds: an optionally signed string of digits
IntParses(s) == AllDigits(Unsigned(s))

\* float(s) succeeds: optionally signed digits with at most one point and at
\* least one digit (exponents, inf and nan are outside the inputs modelled)
FloatParses(s) ==
    LET u == Unsigned(s)
        p == Find(u, ".")
    IN  IF p = 0 THEN AllDigits(u)
        ELSE LET whole == SubSeq(u, 1, p - 1)
                 frac  == From(u, p + 1)
             IN  /\ whole \o frac # ""
                 /\ whole = "" \/ AllDigits(whole)
                 /\ frac = "" \/ AllDigits(frac)

-----------------------------------------------------------------------------
(* format_datetime *)

IsLeap(y) == (y % 4 = 0 /\ y % 100 # 0) \/ y % 400 = 0

DaysIn(y, m) ==
    CASE m \in {4, 6, 9, 11} -> 30
      [] m = 2               -> IF IsLeap(y) THEN 29 ELSE 28
      [] OTHER               -> 31

\* day of the week of a Gregorian date, 0 = Sunday (Sakamoto)
MonthShift == <<0, 3, 2, 5, 0, 3, 5, 1, 4, 6, 2, 4>>
DayOfWeek(y, m, d) ==
    LET yy == IF m < 3 THEN y - 1 ELSE y
    IN  (yy + yy \div 4 - yy \div 100 + yy \div 400 + MonthShift[m] + d) % 7

\* the last Sunday of March or October (both have 31 days)
LastSunday(y, m) == 31 - DayOfWeek(y, m, 31)

\* Europe/Copenhagen: CEST from 01:00 UTC on the last Sunday of March until
\* 01:00 UTC on the last Sunday of October, CET otherwise
UtcOffset(y, m, d, h) ==
    LET afterStart == m > 3 \/ (m = 3 /\ (d > LastSunday(y, 3) \/ (d = LastSunday(y, 3) /\ h >= 1)))
        beforeEnd  == m < 10 \/ (m = 10 /\ (d < LastSunday(y, 10) \/ (d = LastSunday(y, 10) /\ h < 1)))
    IN  IF afterStart /\ beforeEnd THEN 2 ELSE 1

TwoDigits(n) == (IF n < 10 THEN "0" ELSE "") \o ToString(n)
FourDigits(n) ==
    (IF n < 10 THEN "000" ELSE IF n < 100 THEN "00" ELSE IF n < 1000 THEN "0" ELSE "") \o ToString(n)

\* strptime(timestamp_str, "%Y-%m-%dT%H:%M:%S.%fZ") on the fixed-width form the
\* API sends: the fields, or ValueError
ParseTimestamp(s) ==
    LET shape == /\ Len(s) >= 22 /\ Len(s) <= 27
                 /\ Ch(s, 5) = "-" /\ Ch(s, 8) = "-" /\ Ch(s, 11) = "T"
                 /\ Ch(s, 14) = ":" /\ Ch(s, 17) = ":" /\ Ch(s, 20) = "."
                 /\ Ch(s, Len(s)) = "Z"
                 /\ \A f \in {SubSeq(s, 1, 4), SubSeq(s, 6, 7), SubSeq(s, 9, 10),
                              SubSeq(s, 12, 13), SubSeq(s, 15, 16), SubSeq(s, 18, 19),
                              SubSeq(s, 21, Len(s) - 1)} : AllDigits(f)
        y  == DigitsValue(SubSeq(s, 1, 4))
        m  == DigitsValue(SubSeq(s, 6, 7))
        d  == DigitsValue(SubSeq(s, 9, 10))
        h  == DigitsValue(SubSeq(s, 12, 13))
        mi == DigitsValue(SubSeq(s, 15, 16))
        se == DigitsValue(SubSeq(s, 18, 19))
        range == /\ y >= 1 /\ m \in 1..12 /\ d >= 1 /\ d <= DaysIn(y, m)
                 /\ h <= 23 /\ mi <= 59 /\ se <= 61
    IN  IF shape /\ range
        THEN [err |-> NoError, y |-> y, m |-> m, d |-> d, h |-> h, mi |-> mi]
        ELSE [err |-> "ValueError", y |-> 0, m |-> 0, d |-> 0, h |-> 0, mi |-> 0]

\* lines 81-86: the parsed UTC time moved to Danish time and formatted
DanishTime(dt) ==
    IF dt.err # NoError THEN [err |-> dt.err, text |-> ""]
    ELSE LET hh    == dt.h + UtcOffset(dt.y, dt.m, dt.d, dt.h)
             carry == hh >= 24
             dd    == IF carry THEN dt.d + 1 ELSE dt.d
             over  == dd > DaysIn(dt.y, dt.m)
             mm    == IF over THEN dt.m + 1 ELSE dt.m
         IN  [err  |-> NoError,
              text |-> TwoDigits(IF over THEN 1 ELSE dd) \o "/"
                       \o TwoDigits(IF mm > 12 THEN 1 ELSE mm) \o "/"
                       \o FourDigits(IF mm > 12 THEN dt.y + 1 ELSE dt.y)
                       \o " kl. " \o TwoDigits(hh % 24) \o ":" \o TwoDigits(dt.mi)]

format_datetime(timestamp_str) == DanishTime(ParseTimestamp(timestamp_str))

-----------------------------------------------------------------------------
(* JSON records: a dict is a record, a missing key is a field that the     *)
(* record does not have; numbers are in eighths.                           *)

Has(r, k) == k \in DOMAIN r
HasAll(r, ks) == \A k \in ks : k \in DOMAIN r

\* bool(d.get(k)) for a string-valued key
Truthy(r, k) == Has(r, k) /\ r[k] # ""

FracText == <<"0", "125", "25", "375", "5", "625", "75", "875">>
\* str(x) of the float e/8
FloatStr(e) == ToString(e \div 8) \o "." \o FracText[(e % 8) + 1]

\* f"{x:.1f}" of the float e/8: correctly rounded, ties to even
Fixed1(e) ==
    LET scaled == (e % 8) * 125
        down   == scaled \div 100
        rest   == scaled % 100
        tenths == IF rest > 50 \/ (rest = 50 /\ down % 2 = 1) THEN down + 1 ELSE down
    IN  ToString(e \div 8) \o "." \o ToString(tenths)

-----------------------------------------------------------------------------
(* get_sort_key and sorted(..., key=get_sort_key, reverse=True) *)

\* the key (in eighths), or the exception of the lookups and of float(stock);
\* a stock given as text is a string of digits or not a number at all
get_sort_key(clearance) ==
    IF ~Has(clearance, "offer") \/ ~HasAll(clearance.offer, {"stock", "stockUnit"})
    THEN [err |-> "KeyError", key |-> 0]
    ELSE LET offer == clearance.offer
             s     == offer.stock
             u     == Lower(offer.stockUnit)
         IN  IF ~s.isnum /\ ~AllDigits(s.text)
             THEN [err |-> "ValueError", key |-> 0]
             ELSE LET value == IF s.isnum THEN s.e ELSE 8 * DigitsValue(s.text)
                  IN  [err |-> NoError, key |-> IF u = "kg" THEN value * 1000 ELSE value]

InsertBeforeEqual(done, c) ==
    LET k    == get_sort_key(c).key
        keep == {i \in 0..Len(done) : \A j \in 1..i : get_sort_key(done[j]).key > k}
        n    == CHOOSE i \in keep : \A j \in keep : j <= i
    IN  SubSeq(done, 1, n) \o <<c>> \o SubSeq(done, n + 1, Len(done))

\* one step of the stable descending sort: c, which came later in the input,
\* goes after every element whose key is at least its own
InsertSorted(done, c) ==
    LET k    == get_sort_key(c).key
        keep == {i \in 0..Len(done) : \A j \in 1..i : get_sort_key(done[j]).key >= k}
        n    == CHOOSE i \in keep : \A j \in keep : j <= i
    IN  SubSeq(done, 1, n) \o <<c>> \o SubSeq(done, n + 1, Len(done))

RECURSIVE SortedFrom(_, _)
SortedFrom(done, rest) ==
    IF rest = <<>> THEN done
    ELSE SortedFrom(InsertSorted(done, Head(rest)), Tail(rest))

SortedOrRaise(e, clearances) ==
    IF e # NoError THEN [err |-> e, list |-> <<>>]
    ELSE [err |-> NoError, list |-> SortedFrom(<<>>, clearances)]

\* sorted(clearances, key=get_sort_key, reverse=True): every key is computed
\* first, in input order, and the first exception is raised
SortedClearances(clearances) ==
    SortedOrRaise(FirstError([i \in 1..Len(clearances) |-> get_sort_key(clearances[i]).err]),
                  clearances)

\* isinstance(data, dict): a single store is wrapped into a list
StoresOf(data) == IF data.isdict THEN <<data.dict[1]>> ELSE data.list

\* the lookups of a store's header: store.name and the three address fields
StoreHeaderError(store) ==
    IF /\ Has(store, "store")
       /\ HasAll(store.store, {"name", "address"})
       /\ HasAll(store.store.address, {"street", "zip", "city"})
    THEN NoError ELSE "KeyError"

AddressText(store) ==
    store.store.address.street \o ", " \o store.store.address.zip \o " " \o store.store.address.city

\* store['clearances'] sorted, or the exception of the lookup or of a key
StoreClearances(store) ==
    IF ~Has(store, "clearances") THEN [err |-> "KeyError", list |-> <<>>]
    ELSE SortedClearances(store.clearances)

OfferFields == {"originalPrice", "currency", "newPrice", "percentDiscount",
                "stock", "stockUnit", "endTime"}

-----------------------------------------------------------------------------
(* The three renderings.  A document is the sequence of the strings the    *)
(* code appends or prints, in order (non-ASCII glyphs of the source's      *)
(* literals are left out, the arrow is written ->).  Each builder yields   *)
(* [err, lines]: the exception raised, if any, and the lines produced      *)
(* before it.                                                              *)

Failed(kind) == [err |-> kind, lines |-> <<>>]
Lines(lines) == [err |-> NoError, lines |-> lines]

\* one step followed by the remaining ones: an exception ends the sequence
\* with what was produced before it
AndThen(first, rest) ==
    IF first.err # NoError THEN first
    ELSE [err |-> rest.err, lines |-> first.lines \o rest.lines]

LookedOrBlank(r, ks, lines) == IF HasAll(r, ks) THEN Lines(lines) ELSE Lines(<<"">>)

\* a line that needs the keys ks of record r
Looked(r, ks, lines) == IF HasAll(r, ks) THEN Lines(lines) ELSE Failed("KeyError")

\* a line that needs a formatted timestamp
Timed(until, prefix, suffix) ==
    IF until.err # NoError THEN Failed(until.err)
    ELSE Lines(<<prefix \o until.text \o suffix>>)

\* offer[k] formatted as a timestamp
TimeOf(offer, k) ==
    IF Has(offer, k) THEN format_datetime(offer[k]) ELSE [err |-> "KeyError", text |-> ""]

\* lines 180-182
ImageUrl(product) ==
    IF Truthy(product, "image") THEN get_optimized_image_url(product.image) ELSE ""

ImageLine(image_url, product) ==
    IF image_url # ""
    THEN Looked(product, {"description"},
                <<"<img src=\"" \o image_url \o "\" alt=\"" \o product.description
                  \o "\" loading=\"lazy\">\n">>)
    ELSE Lines(<<"<div style=\"width:100px;height:100px;background:#eee;\"></div>\n">>)

\* html_content is only used when the whole document was built, so the lines
\* of a clearance are its ten lines or none
Whole(built) == IF built.err # NoError THEN Failed(built.err) ELSE built

HtmlItemOf(product, offer) ==
    Whole(
    AndThen(Lines(<<"<div class=\"item\">\n">>),
    AndThen(ImageLine(ImageUrl(product), product),
    AndThen(Lines(<<"<div class=\"item-details\">\n">>),
    AndThen(Looked(product, {"description"}, <<"<h3>" \o product.description \o "</h3>\n">>),
    AndThen(Looked(offer, {"originalPrice", "currency", "newPrice"},
                <<"<p class=\"price\"><span class=\"original-price\">"
                  \o FloatStr(offer.originalPrice) \o " " \o offer.currency
                  \o "</span> -> <strong>" \o FloatStr(offer.newPrice) \o " "
                  \o offer.currency \o "</strong></p>\n">>),
    AndThen(Looked(offer, {"percentDiscount"},
                <<"<p><span class=\"discount\">-" \o Fixed1(offer.percentDiscount)
                  \o "%</span></p>\n">>),
    AndThen(Looked(offer, {"stock", "stockUnit"},
                <<"<p class=\"stock\">Beholdning: "
                  \o format_stock(offer.stock, offer.stockUnit) \o "</p>\n">>),
    AndThen(Timed(TimeOf(offer, "endTime"), "<p class=\"valid-until\">Gyldig indtil: ", "</p>\n"),
            Lines(<<"</div>\n", "</div>\n">>))))))))))

\* the lines of one clearance in html_content (generate_outputs, lines 175-197)
HtmlItem(clearance) ==
    IF ~HasAll(clearance, {"product", "offer"}) THEN Failed("KeyError")
    ELSE HtmlItemOf(clearance.product, clearance.offer)

MarkdownItemOf(product, offer) ==
    Whole(
    AndThen(Looked(product, {"description"}, <<"### " \o product.description \o "\n">>),
    AndThen(Looked(offer, {"originalPrice", "currency", "newPrice"},
                <<"- ~~" \o FloatStr(offer.originalPrice) \o " " \o offer.currency
                  \o "~~ -> **" \o FloatStr(offer.newPrice) \o " " \o offer.currency \o "**\n">>),
    AndThen(Looked(offer, {"percentDiscount"},
                <<"- Rabat: **" \o Fixed1(offer.percentDiscount) \o "%**\n">>),
    AndThen(Looked(offer, {"stock", "stockUnit"},
                <<"- Beholdning: " \o format_stock(offer.stock, offer.stockUnit) \o "\n">>),
    AndThen(Timed(TimeOf(offer, "endTime"), "- Gyldig indtil: ", "\n"),
    AndThen(IF Truthy(product, "image")
            THEN Lines(<<"- [Se billede](" \o product.image \o ")\n">>) ELSE Lines(<<>>),
            Lines(<<"\n---\n\n">>))))))))

\* the lines of one clearance in markdown_content (export_to_markdown, lines 243-254)
MarkdownItem(clearance) ==
    IF ~HasAll(clearance, {"product", "offer"}) THEN Failed("KeyError")
    ELSE MarkdownItemOf(clearance.product, clearance.offer)

ConsoleItemOf(product, offer) ==
    AndThen(Looked(product, {"description"}, <<"\n- " \o product.description>>),
    AndThen(Looked(offer, {"originalPrice", "currency"},
                <<"  Oprindelig pris: " \o FloatStr(offer.originalPrice) \o " " \o offer.currency>>),
    AndThen(Looked(offer, {"newPrice"},
                <<"  Ny pris: " \o FloatStr(offer.newPrice) \o " " \o offer.currency>>),
    AndThen(Looked(offer, {"percentDiscount"},
                <<"  Rabat: " \o Fixed1(offer.percentDiscount) \o "%">>),
    AndThen(Looked(offer, {"stock", "stockUnit"},
                <<"  Beholdning: " \o format_stock(offer.stock, offer.stockUnit)>>),
            Timed(TimeOf(offer, "endTime"), "  Gyldig indtil: ", ""))))))

\* the lines one clearance prints (print_clearances, lines 284-292): each
\* print happens before the next lookup, so an exception leaves the earlier
\* lines printed
ConsoleItem(clearance) ==
    IF ~HasAll(clearance, {"product", "offer"}) THEN Failed("KeyError")
    ELSE ConsoleItemOf(clearance.product, clearance.offer)

Item(kind, clearance) ==
    CASE kind = "html"     -> HtmlItem(clearance)
      [] kind = "markdown" -> MarkdownItem(clearance)
      [] OTHER             -> ConsoleItem(clearance)

\* the loop over a store's sorted clearances
RECURSIVE Items(_, _)
Items(kind, clearances) ==
    IF clearances = <<>> THEN Lines(<<>>)
    ELSE AndThen(Item(kind, Head(clearances)), Items(kind, Tail(clearances)))

\* what is emitted for a store before its clearances are sorted
StoreHead(kind, store) ==
    IF StoreHeaderError(store) # NoError THEN Failed(StoreHeaderError(store))
    ELSE Lines(
      CASE kind = "html" ->
            << "<div class=\"store\">\n",
               "<h2>" \o store.store.name \o "</h2>\n",
               "<p><strong>Adresse:</strong> " \o AddressText(store) \o "</p>\n" >>
        [] kind = "markdown" ->
            << "## " \o store.store.name \o "\n",
               "**Adresse:** " \o AddressText(store) \o "\n\n" >>
        [] OTHER ->
            << "\nButik: " \o store.store.name,
               "Adresse: " \o AddressText(store),
               "\nTilbud (sorteret efter storst beholdning):" >>)

\* the loop over the sorted clearances, or the exception of the sort
SortedItems(kind, sorted) ==
    IF sorted.err # NoError THEN Failed(sorted.err) ELSE Items(kind, sorted.list)

\* one iteration of "for store in stores"
StoreLines(kind, store) ==
    AndThen(StoreHead(kind, store),
    AndThen(SortedItems(kind, StoreClearances(store)),
            Lines(IF kind = "html" THEN <<"</div>\n">> ELSE <<>>)))

RECURSIVE AllStores(_, _)
AllStores(kind, stores) ==
    IF stores = <<>> THEN Lines(<<>>)
    ELSE AndThen(StoreLines(kind, Head(stores)), AllStores(kind, Tail(stores)))

\* datetime.now() is the minute `now` of 1 June 2024, 10:00 local time
StampText(now)  == "20240601_10" \o TwoDigits(now)
DanishText(now) == "01/06/2024 kl. 10:" \o TwoDigits(now)

\* html_content of generate_outputs (lines 155-199)
HtmlContent(data, now) ==
    AndThen(Lines(<< "<h1>Tilbud med kort holdbarhed</h1>",
                     "<p class=\"updated\">Opdateret: " \o DanishText(now) \o "</p>" >>),
            AllStores("html", StoresOf(data)))

\* markdown_content of export_to_markdown (lines 226-254)
MarkdownContent(data, now) ==
    AndThen(Lines(<< "# Tilbud med kort holdbarhed\n\n",
                     "*Opdateret: " \o DanishText(now) \o "*\n\n" >>),
            AllStores("markdown", StoresOf(data)))

\* what the loop of print_clearances prints (lines 275-292)
ConsoleLines(data) == AllStores("console", StoresOf(data))

HtmlPath(base) == "output/" \o base \o ".html"
PdfPathFromClock(base, now) == "output/tilbud_" \o StampText(now) \o ".pdf"
PdfPath(base, now) == "output/" \o base \o ".pdf"

-----------------------------------------------------------------------------
(* Bounds and inputs *)

MaxParts      == 4      \* pieces the path of an input URL is put together from
MaxStock      == 41     \* largest stock given to format_stock, in eighths
MaxClearances == 3      \* clearances of a store
MaxClock      == 1      \* minutes the clock advances

TimeSummer == "2024-06-01T10:00:00.000000Z"
TimeWinter == "2024-12-31T23:30:00.000000Z"
TimeNoFraction == "2024-06-01T10:00:00Z"

Offer(stockE, stockUnit, endTime) ==
    [currency |-> "DKK", discount |-> 80, ean |-> "5700000000017", endTime |-> endTime,
     newPrice |-> 120, originalPrice |-> 200, percentDiscount |-> 322,
     stock |-> Num(stockE), stockUnit |-> stockUnit]

\* 2 kg, with a legacy image
KgClearance ==
    [product |-> [description |-> "Oksekoed", ean |-> "5700000000017",
                  image |-> "https://dam.dsg.dk/services/assets.img/id/ABC123/foo"],
     offer   |-> Offer(16, "kg", TimeSummer)]
\* 500 pieces, no image
EachClearance ==
    [product |-> [description |-> "Rugbroed", ean |-> "5700000000017"],
     offer   |-> Offer(4000, "each", TimeWinter)]
\* 2000 pieces: the key of 2 kg
TieClearance ==
    [product |-> [description |-> "Yoghurt", ean |-> "5700000000017", image |-> ""],
     offer   |-> Offer(16000, "EACH", TimeSummer)]
\* 2.5 kg, the unit in capitals
UpperKgClearance ==
    [product |-> [description |-> "Laks", ean |-> "5700000000017",
                  image |-> "https://digitalassets.sallinggroup.com/image/upload/x/DEF456"],
     offer   |-> Offer(20, "KG", TimeSummer)]
\* product.description is missing
NoDescriptionClearance ==
    [product |-> [ean |-> "5700000000017"],
     offer   |-> Offer(8, "each", TimeSummer)]
\* offer.endTime has no fraction of a second
BadTimeClearance ==
    [product |-> [description |-> "Ost", ean |-> "5700000000017"],
     offer   |-> Offer(24, "each", TimeNoFraction)]

WellFormed == {KgClearance, EachClearance, TieClearance, UpperKgClearance}
Pool       == WellFormed \cup {NoDescriptionClearance, BadTimeClearance}

\* the lists of at most n different clearances of the pool
ClearanceLists(n) ==
    UNION {{q \in [1..k -> Pool] : \A i, j \in 1..k : q[i] = q[j] => i = j} : k \in 0..n}

StoreWith(name, clearances) ==
    [store |-> [name |-> name,
                address |-> [street |-> "Torvet 1", zip |-> "8000", city |-> "Aarhus C"]],
     clearances |-> clearances]

\* the two shapes of a batch: one store (a dict, held in `dict`) or a list of
\* stores (held in `list`)
AsDict(store)  == [isdict |-> TRUE, dict |-> <<store>>, list |-> <<>>]
AsList(stores) == [isdict |-> FALSE, dict |-> <<>>, list |-> stores]
NoData == AsList(<<>>)

\* one store with two clearances, one "each" and one "kg"
TwoClearanceStore == StoreWith("Netto", <<EachClearance, KgClearance>>)

\* the batches the renderers are called with
Batches ==
    {AsDict(StoreWith("Netto", q)) : q \in ClearanceLists(MaxClearances)}
    \cup {AsList(<<StoreWith("Netto", q)>>) : q \in ClearanceLists(MaxClearances)}
    \cup {AsList(<<StoreWith("Netto", q), StoreWith("Bilka", r)>>) :
              q \in ClearanceLists(1), r \in ClearanceLists(1)}
    \cup {NoData}

\* what the API answers: lists for the two searches, one store for a store id
ApiResults(c) ==
    IF c = "3"
    THEN {AsDict(TwoClearanceStore),
          AsDict(StoreWith("Netto", <<BadTimeClearance>>)),
          AsDict(StoreWith("Netto", <<KgClearance, NoDescriptionClearance>>))}
    ELSE {NoData,
          AsList(<<TwoClearanceStore>>),
          AsList(<<StoreWith("Netto", <<TieClearance>>), StoreWith("Bilka", <<BadTimeClearance>>)>>),
          AsList(<<StoreWith("Netto", <<NoDescriptionClearance>>)>>)}

\* what the user types for a coordinate and for the radius
FloatInputs  == {"56.154459", "abc", ""}
RadiusInputs == {"", "5", "2.5"}
Choices      == {"1", "2", "3", "4", "9"}

\* input URLs: https://<host><path>, the path put together from pieces
Hosts     == {"dam.dsg.dk", "digitalassets.sallinggroup.com", "cdn.example.com"}
PathParts == {"/id/", "/", "ABC123", "dam.dsg.dk"}

RECURSIVE PathsOf(_)
PathsOf(n) ==
    IF n = 0 THEN {""}
    ELSE {""} \cup {p \o rest : p \in PathParts, rest \in PathsOf(n - 1)}

UrlInputs ==
    {""} \cup {"https://" \o h \o path : h \in Hosts, path \in PathsOf(MaxParts)}
         \cup {"https://dam.dsg.dk/services/assets.img/id/ABC123/foo"}

Stocks == {Num(e) : e \in 0..MaxStock} \cup {Txt("mange")}
Units  == {"each", "EACH", "Each", "kg", "KG", "Kg", "g", "G", "l", "L", "stk."}

-----------------------------------------------------------------------------
(* The renderers and main as a state machine *)

TemplatePath == "template.html"
Template == << "<html><body>", "{{ content }}", "</body></html>" >>

\* Template(...).render(content=html_content)
RenderTemplate(content) ==
    LET at == CHOOSE i \in 1..Len(Template) : Template[i] = "{{ content }}"
    IN  SubSeq(Template, 1, at - 1) \o content \o SubSeq(Template, at + 1, Len(Template))

CatchesNothing(c, kind) == FALSE

\* the except clauses of main: RequestException for every choice, ValueError
\* as well for choice 2
Catches(c, kind) ==
    kind = "RequestException" \/ (c = "2" /\ kind = "ValueError")

\* an exception leaves the renderer: main catches it and prompts again, or it
\* propagates
Raised(kind, printed) ==
    /\ err' = kind
    /\ IF entry = "main"
       THEN IF Catches(choice, kind)
            THEN pc' = "menu" /\ console' = Append(printed, "Error: " \o kind)
            ELSE pc' = "crashed" /\ console' = printed
       ELSE pc' = "raised" /\ console' = printed

Idle ==
    /\ choice = "" /\ query = "" /\ clock = 0
    /\ base_filename = "" /\ html_content = <<>> /\ final_html = <<>>
    /\ wrote = <<>> /\ console = <<>> /\ result = <<>> /\ err = NoError

PureIdle ==
    /\ url = "" /\ out1 = <<>> /\ out2 = <<>>
    /\ stock = Num(0) /\ unit = "" /\ shown = <<>>

\* main, lines 296-303: without a token main returns at once
Startup ==
    /\ pc = "start"
    /\ \E api_token \in {"", "token"} :
          IF api_token = ""
          THEN pc' = "exit" /\ console' = <<"Error: Please set your API token in the .env file">>
          ELSE pc' = "menu" /\ console' = console
    /\ UNCHANGED <<entry, choice, query, results, clock, base_filename, html_content,
                   final_html, disk, wrote, result, err>>

\* main, lines 308-346: the menu is printed and a choice read; choice 1 and 3
\* read their one input
Choose ==
    /\ pc = "menu"
    /\ \E c \in Choices :
          /\ choice' = c
          /\ query' = (CASE c = "1" -> "zip=8000" [] c = "3" -> "/store-1" [] OTHER -> "")
          /\ pc' = (CASE c \in {"1", "3"} -> "api" [] c = "2" -> "coords"
                      [] c = "4" -> "exit" [] OTHER -> "menu")
          /\ console' = IF c \in {"1", "2", "3", "4"} THEN <<>>
                        ELSE <<"Invalid choice. Please try again.">>
    /\ results' = NoData /\ base_filename' = "" /\ html_content' = <<>> /\ final_html' = <<>>
    /\ wrote' = <<>> /\ result' = <<>> /\ err' = NoError
    /\ UNCHANGED <<entry, clock, disk>>

\* main, lines 326-328: float(), float() and int() of what is typed, in that
\* order; the first that fails raises ValueError
ReadCoordinates ==
    /\ pc = "coords"
    /\ \E lat \in FloatInputs, lon \in FloatInputs, radius \in RadiusInputs :
          LET r == IF radius = "" THEN "5" ELSE radius
          IN  IF FloatParses(lat) /\ FloatParses(lon) /\ IntParses(r)
              THEN /\ query' = "geo=" \o lat \o "," \o lon \o "&radius=" \o r
                   /\ pc' = "api" /\ console' = console /\ err' = err
              ELSE /\ query' = query
                   /\ Raised("ValueError", console)
    /\ UNCHANGED <<entry, choice, results, clock, base_filename, html_content, final_html,
                   disk, wrote, result>>

\* search_by_zip, search_by_coordinates, get_store_clearances: the request
\* fails (raise_for_status, the transport) or answers with a batch
ApiCall ==
    /\ pc = "api"
    /\ \/ /\ Raised("RequestException", console)
          /\ results' = results
       \/ /\ \E answer \in ApiResults(choice) : results' = answer
          /\ pc' = "build" /\ console' = console /\ err' = err
    /\ UNCHANGED <<entry, choice, query, clock, base_filename, html_content, final_html,
                   disk, wrote, result>>

BuildWith(content) ==
    IF content.err # NoError
    THEN /\ Raised(content.err, console)
         /\ html_content' = html_content
    ELSE /\ html_content' = content.lines
         /\ pc' = "template" /\ console' = console /\ err' = err

\* generate_outputs, lines 144-199: the directories, the one reading of the
\* clock for the file names, and html_content built from the batch
Build ==
    /\ pc = "build"
    /\ disk' = disk \cup {"output", "output/images"}
    /\ base_filename' = "tilbud_" \o StampText(clock)
    /\ BuildWith(HtmlContent(results, clock))
    /\ UNCHANGED <<entry, choice, query, results, clock, final_html, wrote, result>>

\* generate_outputs, lines 202-206: open('template.html') and render
ReadTemplate ==
    /\ pc = "template"
    /\ IF TemplatePath \in disk
       THEN /\ final_html' = RenderTemplate(html_content)
            /\ pc' = "write_html" /\ console' = console /\ err' = err
       ELSE /\ Raised("FileNotFoundError", console)
            /\ final_html' = final_html
    /\ UNCHANGED <<entry, choice, query, results, clock, base_filename, html_content,
                   disk, wrote, result>>

WriteHtmlDeferred ==
    /\ pc = "write_html"
    /\ pc' = "write_pdf"
    /\ UNCHANGED <<entry, choice, query, results, clock, base_filename, html_content,
                   final_html, disk, wrote, console, result, err>>

\* generate_outputs, lines 209-211
WriteHtml ==
    /\ pc = "write_html"
    /\ disk' = disk \cup {HtmlPath(base_filename)}
    /\ wrote' = Append(wrote, [path |-> HtmlPath(base_filename), content |-> final_html])
    /\ pc' = "write_pdf"
    /\ UNCHANGED <<entry, choice, query, results, clock, base_filename, html_content,
                   final_html, console, result, err>>

\* generate_outputs, lines 214-217: the conversion succeeds and the pair of
\* paths is returned, or it fails and the engine's exception leaves the call
WritePdf ==
    /\ pc = "write_pdf"
    /\ \/ /\ disk' = disk \cup {PdfPath(base_filename, clock)}
          /\ wrote' = Append(wrote, [path |-> PdfPath(base_filename, clock), content |-> final_html])
          /\ result' = <<HtmlPath(base_filename), PdfPath(base_filename, clock)>>
          /\ pc' = IF entry = "generate_outputs" THEN "returned" ELSE "print"
          /\ console' = console /\ err' = err
       \/ /\ Raised("PdfError", console)
          /\ UNCHANGED <<disk, wrote, result>>
    /\ UNCHANGED <<entry, choice, query, results, clock, base_filename, html_content, final_html>>

PrintWith(paths, printed) ==
    IF printed.err # NoError
    THEN Raised(printed.err, console \o paths \o printed.lines)
    ELSE /\ console' = console \o paths \o printed.lines
         /\ pc' = IF entry = "main" THEN "menu" ELSE "returned"
         /\ err' = err

\* print_clearances, lines 266-292: the two paths, then every store
PrintConsole ==
    /\ pc = "print"
    /\ PrintWith(<< "\nOutput filer genereret:",
                    "- HTML: " \o result[1],
                    "- PDF: " \o result[2] >>,
                 ConsoleLines(results))
    /\ UNCHANGED <<entry, choice, query, results, clock, base_filename, html_content,
                   final_html, disk, wrote, result>>

ExportWith(name, content) ==
    IF content.err # NoError
    THEN /\ err' = content.err /\ pc' = "raised"
         /\ UNCHANGED <<disk, wrote, result>>
    ELSE /\ disk' = disk \cup {name}
         /\ wrote' = Append(wrote, [path |-> name, content |-> content.lines])
         /\ result' = <<name>>
         /\ pc' = "returned" /\ err' = err

\* export_to_markdown, lines 219-260, with filename None ("") or given
ExportToMarkdown ==
    /\ pc = "idle"
    /\ entry' = "export_to_markdown"
    /\ \E filename \in {"", "tilbud.md"} :
          ExportWith(IF filename = "" THEN "tilbud_" \o StampText(clock) \o ".md" ELSE filename,
                     MarkdownContent(results, clock))
    /\ UNCHANGED <<choice, query, results, clock, base_filename, html_content, final_html, console>>

\* a direct call of generate_outputs(data)
CallGenerateOutputs ==
    /\ pc = "idle"
    /\ entry' = "generate_outputs"
    /\ pc' = "build"
    /\ UNCHANGED <<choice, query, results, clock, base_filename, html_content, final_html,
                   disk, wrote, console, result, err>>

\* a direct call of print_clearances(data)
CallPrintClearances ==
    /\ pc = "idle"
    /\ entry' = "print_clearances"
    /\ pc' = "build"
    /\ UNCHANGED <<choice, query, results, clock, base_filename, html_content, final_html,
                   disk, wrote, console, result, err>>

\* the wall clock reaches the next minute while the program runs
Tick ==
    /\ pc \in {"menu", "coords", "api", "build", "template", "write_html", "write_pdf", "print"}
    /\ clock < MaxClock
    /\ clock' = clock + 1
    /\ UNCHANGED <<pc, entry, choice, query, results, base_filename, html_content, final_html,
                   disk, wrote, console, result, err>>

-----------------------------------------------------------------------------
(* Specifications *)

\* main()
Init ==
    /\ PureIdle /\ Idle
    /\ pc = "start" /\ entry = "main" /\ results = NoData
    /\ disk \in {{}, {TemplatePath}}

Next ==
    \/ (Startup /\ UNCHANGED <<urlVars, stockVars>>)
    \/ (Choose /\ UNCHANGED <<urlVars, stockVars>>)
    \/ (ReadCoordinates /\ UNCHANGED <<urlVars, stockVars>>)
    \/ (ApiCall /\ UNCHANGED <<urlVars, stockVars>>)
    \/ (Build /\ UNCHANGED <<urlVars, stockVars>>)
    \/ (ReadTemplate /\ UNCHANGED <<urlVars, stockVars>>)
    \/ (WriteHtml /\ UNCHANGED <<urlVars, stockVars>>)
    \/ (WritePdf /\ UNCHANGED <<urlVars, stockVars>>)
    \/ (PrintConsole /\ UNCHANGED <<urlVars, stockVars>>)
    \/ (Tick /\ UNCHANGED <<urlVars, stockVars>>)

Spec == Init /\ [][Next]_vars

\* the renderers called directly with a batch
InitLib ==
    /\ PureIdle /\ Idle
    /\ pc = "idle" /\ entry = ""
    /\ results \in Batches
    /\ disk \in {{}, {TemplatePath}}

NextLib ==
    \/ (CallGenerateOutputs /\ UNCHANGED <<urlVars, stockVars>>)
    \/ (CallPrintClearances /\ UNCHANGED <<urlVars, stockVars>>)
    \/ (ExportToMarkdown /\ UNCHANGED <<urlVars, stockVars>>)
    \/ (Build /\ UNCHANGED <<urlVars, stockVars>>)
    \/ (ReadTemplate /\ UNCHANGED <<urlVars, stockVars>>)
    \/ (WriteHtml /\ UNCHANGED <<urlVars, stockVars>>)
    \/ (WritePdf /\ UNCHANGED <<urlVars, stockVars>>)
    \/ (PrintConsole /\ UNCHANGED <<urlVars, stockVars>>)
    \/ (Tick /\ UNCHANGED <<urlVars, stockVars>>)

SpecLib == InitLib /\ [][NextLib]_vars

RenderIdle ==
    /\ Idle /\ pc = "pure" /\ entry = "" /\ results = NoData /\ disk = {}

\* get_optimized_image_url applied once and then to its own result
Normalize ==
    /\ out1 = <<>>
    /\ out1' = <<get_optimized_image_url(url)>>
    /\ UNCHANGED <<url, out2, stockVars, renderVars>>

NormalizeAgain ==
    /\ out1 # <<>> /\ out2 = <<>>
    /\ out2' = <<get_optimized_image_url(out1[1])>>
    /\ UNCHANGED <<url, out1, stockVars, renderVars>>

InitUrl ==
    /\ RenderIdle
    /\ url \in UrlInputs /\ out1 = <<>> /\ out2 = <<>>
    /\ stock = Num(0) /\ unit = "" /\ shown = <<>>

NextUrl == Normalize \/ NormalizeAgain

SpecUrl == InitUrl /\ [][NextUrl]_vars

\* format_stock applied to a stock and a unit code
FormatStock ==
    /\ shown = <<>>
    /\ shown' = <<format_stock(stock, unit)>>
    /\ UNCHANGED <<stock, unit, urlVars, renderVars>>

InitStock ==
    /\ RenderIdle
    /\ url = "" /\ out1 = <<>> /\ out2 = <<>>
    /\ stock \in Stocks /\ unit \in Units /\ shown = <<>>

SpecStock == InitStock /\ [][FormatStock]_vars

-----------------------------------------------------------------------------
(* Properties *)

StartsWith(s, prefix) == Len(s) >= Len(prefix) /\ SubSeq(s, 1, Len(prefix)) = prefix
EndsWith(s, suffix) ==
    Len(s) >= Len(suffix) /\ SubSeq(s, Len(s) - Len(suffix) + 1, Len(s)) = suffix
IsMarkdownPath(path) == EndsWith(path, ".md")

\* the lines of a document that start with prefix
LinesWith(lines, prefix) == SelectSeq(lines, LAMBDA l : StartsWith(l, prefix))

\* the product descriptions a document shows, in order: the lines
\* prefix <description> suffix
Descriptions(lines, prefix, suffix) ==
    LET found == LinesWith(lines, prefix)
    IN  [i \in 1..Len(found) |->
            SubSeq(found[i], Len(prefix) + 1, Len(found[i]) - Len(suffix))]

PathsWritten == {wrote[i].path : i \in 1..Len(wrote)}
MarkdownWritten == {i \in 1..Len(wrote) : IsMarkdownPath(wrote[i].path)}

\* C1: when print_clearances has rendered the batch of one store with one
\* "each" and one "kg" clearance (main is back at the menu with the returned
\* paths and no exception), the console summary, the HTML file, the PDF file
\* and a Markdown file were all produced by that render, and the Markdown
\* document has exactly 2 clearance sections.
C1_RenderProducesAllThree ==
    (/\ entry = "main" /\ pc = "menu" /\ Len(result) = 2 /\ err = NoError
     /\ StoresOf(results) = <<TwoClearanceStore>>) =>
        /\ console # <<>>
        /\ {result[1], result[2]} \subseteq PathsWritten
        /\ MarkdownWritten # {}
        /\ \A i \in MarkdownWritten : Len(LinesWith(wrote[i].content, "### ")) = 2

\* the rank of a clearance as the claim states it: stock * 1000 for a unit
\* that spells kg in any case, the stock otherwise
KgSpellings == {"kg", "kG", "Kg", "KG"}
RankOf(c) ==
    IF c.offer.stockUnit \in KgSpellings THEN c.offer.stock.e * 1000 ELSE c.offer.stock.e

\* the order the claim asks for: descending rank, equal ranks in input order
RankedOrder(cs) ==
    CHOOSE p \in [1..Len(cs) -> 1..Len(cs)] :
        /\ \A i, j \in 1..Len(cs) : p[i] = p[j] => i = j
        /\ \A i, j \in 1..Len(cs) :
              i < j => \/ RankOf(cs[p[i]]) > RankOf(cs[p[j]])
                       \/ (RankOf(cs[p[i]]) = RankOf(cs[p[j]]) /\ p[i] < p[j])

RankedDescriptions(cs) ==
    [i \in 1..Len(cs) |-> cs[RankedOrder(cs)[i]].product.description]

RECURSIVE ExpectedDescriptions(_)
ExpectedDescriptions(stores) ==
    IF stores = <<>> THEN <<>>
    ELSE RankedDescriptions(Head(stores).clearances) \o ExpectedDescriptions(Tail(stores))

PrintReturned == entry = "print_clearances" /\ pc = "returned"

\* C2: in the HTML page, in the Markdown document and in the console text,
\* the clearances of every store appear in descending order of the rank key
\* (stock * 1000 for kg in any case, stock otherwise), equal keys in input
\* order; 2 kg comes before 500 each.
C2_SortedByRankStable ==
    /\ final_html # <<>> =>
          Descriptions(final_html, "<h3>", "</h3>\n") = ExpectedDescriptions(StoresOf(results))
    /\ \A i \in MarkdownWritten :
          Descriptions(wrote[i].content, "### ", "\n") = ExpectedDescriptions(StoresOf(results))
    /\ PrintReturned =>
          Descriptions(console, "\n- ", "") = ExpectedDescriptions(StoresOf(results))
    /\ (PrintReturned /\ StoresOf(results) = <<TwoClearanceStore>>) =>
          Descriptions(console, "\n- ", "") = <<"Oksekoed", "Rugbroed">>

\* a store whose 2000 pieces come before its 2 kg (equal keys) and after its
\* 500 pieces was printed
C2_Witness ==
    /\ PrintReturned
    /\ StoresOf(results) = <<StoreWith("Netto", <<EachClearance, TieClearance, KgClearance>>)>>
    /\ Descriptions(console, "\n- ", "") = <<"Yoghurt", "Oksekoed", "Rugbroed">>

AllClearances(data) ==
    UNION {{StoresOf(data)[i].clearances[k] : k \in 1..Len(StoresOf(data)[i].clearances)} :
              i \in 1..Len(StoresOf(data))}

LacksField(data) ==
    \E c \in AllClearances(data) : ~Has(c.product, "description")
BadTimestamp(data) ==
    \E c \in AllClearances(data) : ParseTimestamp(c.offer.endTime).err # NoError

Reported(kind) == console' = Append(console, "Error: " \o kind)

\* C4: in the menu loop a failed API request of choice 1, 2 or 3 and a
\* latitude, longitude or radius that does not parse are caught and reported,
\* and the menu is prompted again; no step of reading the inputs or calling
\* the API ends the loop; an unrecognised choice prompts again and choice 4
\* ends the loop.
C4_LoopSurvivesRequestErrors ==
    [][ /\ (pc = "api" /\ err' # NoError) =>
              (err' = "RequestException" /\ pc' = "menu" /\ Reported("RequestException"))
        /\ (pc = "coords" /\ err' # NoError) =>
              (err' = "ValueError" /\ pc' = "menu" /\ Reported("ValueError"))
        /\ (pc = "coords" /\ pc' = "api") =>
              (err' = NoError /\ query' = "geo=56.154459,56.154459&radius=5")
        /\ pc \in {"api", "coords"} => pc' \in {"api", "coords", "build", "menu"}
        /\ (pc = "menu" /\ clock' = clock) =>
              \/ (choice' \in {"1", "3"} /\ pc' = "api")
              \/ (choice' = "2" /\ pc' = "coords")
              \/ (choice' = "4" /\ pc' = "exit")
              \/ (choice' \notin {"1", "2", "3", "4"} /\ pc' = "menu"
                  /\ console' = <<"Invalid choice. Please try again.">>)
      ]_vars

\* the coordinate search is back at the menu after its request failed
C4_Witness ==
    /\ pc = "menu" /\ choice = "2" /\ err = "RequestException"
    /\ console = <<"Error: RequestException">>
    /\ query = "geo=56.154459,56.154459&radius=5"

\* C5: once rendering has begun for a request (generate_outputs has read the
\* clock for its file names), an exception ends main: it is not caught by the
\* menu loop, whichever of choice 1, 2 and 3 made the request.
C5_RenderErrorsPropagate ==
    (entry = "main" /\ base_filename # "" /\ err # NoError) => pc = "crashed"

HtmlWrite == [path |-> HtmlPath(base_filename), content |-> final_html]

\* C6: generate_outputs writes the whole HTML page before it attempts the
\* PDF: when the conversion fails, the call fails with exactly that HTML file
\* written, holding the whole rendered page, and returns no paths; when the
\* template is unavailable, the call fails having written neither file.
C6_HtmlBeforePdf ==
    /\ pc = "write_pdf" => (wrote = <<HtmlWrite>> /\ HtmlPath(base_filename) \in disk)
    /\ err = "PdfError" =>
          /\ pc = "raised" /\ result = <<>>
          /\ wrote = <<HtmlWrite>> /\ final_html = RenderTemplate(html_content)
          /\ HtmlPath(base_filename) \in disk
    /\ err = "FileNotFoundError" =>
          /\ pc = "raised" /\ result = <<>> /\ wrote = <<>>
          /\ disk \subseteq {"output", "output/images"}
    /\ \A i \in 1..Len(wrote) :
          EndsWith(wrote[i].path, ".pdf") => (i = 2 /\ wrote[1] = HtmlWrite)

\* the conversion failed after the page of two clearances was written
C6_Witness ==
    /\ err = "PdfError" /\ pc = "raised" /\ entry = "generate_outputs"
    /\ StoresOf(results) = <<TwoClearanceStore>>
    /\ HtmlPath(base_filename) \in disk

\* a path without its extension
WithoutExtension(path, ext) == SubSeq(path, 1, Len(path) - Len(ext))

\* C7: the two paths generate_outputs returns are output/tilbud_<stamp>.html
\* and output/tilbud_<stamp>.pdf with the same stamp, also when the clock has
\* reached the next minute between the two writes.
C7_SameBaseName ==
    (entry \in {"generate_outputs", "print_clearances"} /\ result # <<>>) =>
        /\ Len(result) = 2
        /\ EndsWith(result[1], ".html") /\ EndsWith(result[2], ".pdf")
        /\ WithoutExtension(result[1], ".html") = WithoutExtension(result[2], ".pdf")
        /\ \E t \in 0..MaxClock :
              WithoutExtension(result[1], ".html") = "output/tilbud_" \o StampText(t)

\* the paths were returned after the clock had left the minute of the stamp
C7_Witness ==
    /\ entry = "generate_outputs" /\ pc = "returned" /\ Len(result) = 2
    /\ clock = 1 /\ result[1] = "output/tilbud_20240601_1000.html"
    /\ Len(wrote) = 2 /\ wrote[2].path = result[2]

\* C8: get_optimized_image_url is idempotent: applied to its own result it
\* returns that result; the empty string and every URL that contains the
\* canonical domain are returned unchanged.
C8_NormalizeIdempotent ==
    /\ out2 # <<>> => out2 = out1
    /\ (out1 # <<>> /\ url = "") => out1 = <<"">>
    /\ (out1 # <<>> /\ Contains(url, CanonicalDomain)) => out1 = <<url>>

\* a legacy URL was rewritten and the rewritten URL was normalized again
C8_Witness ==
    /\ url = "https://dam.dsg.dk/services/assets.img/id/ABC123/foo"
    /\ out1 = <<CanonicalPrefix \o "ABC123">>
    /\ out2 = out1

\* the first path segment after the first "/id/" of a URL that has one: the
\* characters up to the next "/" or the end
SegmentAfterId(u) ==
    LET rest == From(u, Find(u, "/id/") + 4)
        stop == Find(rest, "/")
    IN  IF stop = 0 THEN rest ELSE SubSeq(rest, 1, stop - 1)

\* the URL contains "/id/" followed by an asset id
HasIdSegment(u) == Contains(u, "/id/") /\ SegmentAfterId(u) # ""

\* C9 as stated: every non-empty URL off the canonical domain that contains
\* a segment /id/<assetId> becomes the canonical prefix followed by the
\* asset id, whatever its host, and every other one is returned unchanged.
C9_AnyIdSegmentRewritten ==
    (out1 # <<>> /\ url # "" /\ ~Contains(url, CanonicalDomain)) =>
        out1[1] = IF HasIdSegment(url) THEN CanonicalPrefix \o SegmentAfterId(url) ELSE url

\* C9: a non-empty URL off the canonical domain becomes the canonical prefix
\* followed by the first path segment after its first "/id/" when it contains
\* the legacy host dam.dsg.dk and that segment is not empty; every other such
\* URL is returned unchanged.
C9_LegacyIdRewritten ==
    (out1 # <<>> /\ url # "" /\ ~Contains(url, CanonicalDomain)) =>
        out1[1] = IF Contains(url, LegacyDomain) /\ HasIdSegment(url)
                  THEN CanonicalPrefix \o SegmentAfterId(url)
                  ELSE url

\* a legacy URL was rewritten to the canonical prefix and its id
C9_Witness ==
    /\ url = "https://dam.dsg.dk/id/ABC123/"
    /\ out1 = <<CanonicalPrefix \o "ABC123">>

EachSpellings == {"each", "Each", "EACH"}
GramSpellings == {"g", "G"}
\* the unit the claim's table gives
TableUnit(u) ==
    CASE u \in EachSpellings -> "stk."
      [] u \in KgSpellings   -> "kg"
      [] u \in GramSpellings -> "g"
      [] OTHER               -> u

\* the text in front of " <unit>"
ValueText(text, u) == SubSeq(text, 1, Len(text) - Len(u) - 1)

\* v is digits "." digit digit and is the stock e/8 rounded to hundredths
IsTwoDecimals(v, e) ==
    /\ Len(v) >= 4 /\ Ch(v, Len(v) - 2) = "."
    /\ AllDigits(SubSeq(v, 1, Len(v) - 3)) /\ AllDigits(SubSeq(v, Len(v) - 1, Len(v)))
    /\ LET hundredths == 100 * DigitsValue(SubSeq(v, 1, Len(v) - 3))
                         + DigitsValue(SubSeq(v, Len(v) - 1, Len(v)))
       IN  8 * hundredths - 100 * e \in -4..4

\* v is the digits of the stock e/8 truncated to an integer
IsTruncated(v, e) ==
    AllDigits(v) /\ 8 * DigitsValue(v) <= e /\ e < 8 * (DigitsValue(v) + 1)

\* C10: format_stock of a number and a unit code is "<value> <unit>": the
\* unit is the translation of the code, found without regard to case (each
\* -> stk., kg -> kg, g -> g, any other code unchanged); the value has
\* exactly 2 decimals for kg and is the truncated integer otherwise.  2.5 kg
\* is "2.50 kg"; 3 each and 3 EACH are "3 stk.".
C10_FormatStock ==
    (shown # <<>> /\ stock.isnum) =>
        /\ EndsWith(shown[1], " " \o TableUnit(unit))
        /\ IF TableUnit(unit) = "kg"
           THEN IsTwoDecimals(ValueText(shown[1], TableUnit(unit)), stock.e)
           ELSE IsTruncated(ValueText(shown[1], TableUnit(unit)), stock.e)
        /\ (stock = Num(20) /\ unit = "kg") => shown = <<"2.50 kg">>
        /\ (stock = Num(24) /\ unit \in {"each", "EACH"}) => shown = <<"3 stk.">>

\* 2.5 in the unit KG was formatted
C10_Witness == stock = Num(20) /\ unit = "KG" /\ shown = <<"2.50 kg">>

=============================================================================
